---- MODULE Spec2Model ----
(***************************************************************************)
(* Model of the GNS3 dynamic inventory plugin                              *)
(* (src/plugins/inventory/gns3.py, class InventoryModule).                 *)
(*                                                                         *)
(* Text is modelled as a sequence of one-character strings, so that        *)
(* slicing (node_id[-6:]), concatenation (f"{host}_{suffix}"), stripping   *)
(* and URL parsing are computed character by character.  A JSON / option   *)
(* value is a record [k, v]: k is "none" (absent key, null or unset        *)
(* option), "str" (v is the text) or "int" (v is <<n>>).                   *)
(***************************************************************************)
EXTENDS Integers, Sequences, FiniteSets, TLC

VARIABLES
    cfg,        \* the options read from the inventory source (lines 138-150)
    cache,      \* self._cache[cache_key]: None or the stored payload
    pc,         \* position of parse()
    projects,   \* local `projects` (line 161), live until line 163
    pid,        \* local `pid`
    nodes,      \* local `nodes`
    inventory,  \* self.inventory: groups and host variables
    seen,       \* local `seen` (line 179)
    emitted,    \* per processed node: the host it was added as, or Skip
    calls,      \* remote GETs issued by the current run, in order
    error,      \* kind of the AnsibleParserError that ended the run
    fromCache,  \* the current run took `source` from the cache
    cacheAtStart, \* cache entry when the current run began
    stored      \* host/group set of the run that wrote the cache entry

vars == <<cfg, cache, pc, projects, pid, nodes, inventory, seen, emitted,
          calls, error, fromCache, cacheAtStart, stored>>

-----------------------------------------------------------------------------
(* Bounds of the model *)

MaxNodes == 3
MaxProjects == 2

-----------------------------------------------------------------------------
(* Values *)

None == [k |-> "none", v |-> <<>>]
StrV(s) == [k |-> "str", v |-> s]
IntV(n) == [k |-> "int", v |-> <<n>>]

\* Python truthiness of a value (None, "" and 0 are falsy)
Truthy(x) ==
    \/ x.k = "str" /\ x.v # <<>>
    \/ x.k = "int" /\ x.v # <<0>>

\* Python `a or b`
Or(a, b) == IF Truthy(a) THEN a ELSE b

\* isinstance(x, int)
IsInt(x) == x.k = "int"

\* Python s[-6:]
SuffixLen == 6
Last6(s) == IF Len(s) <= SuffixLen THEN s ELSE SubSeq(s, Len(s) - SuffixLen + 1, Len(s))

\* str.lower() on the characters the model uses
LowerChar(c) ==
    CASE c = "G" -> "g"
      [] c = "W" -> "w"
      [] OTHER -> c
Lower(s) == [i \in 1..Len(s) |-> LowerChar(s[i])]

\* str.rstrip("/")
RECURSIVE RStripSlash(_)
RStripSlash(s) ==
    IF s # <<>> /\ s[Len(s)] = "/" THEN RStripSlash(SubSeq(s, 1, Len(s) - 1)) ELSE s

\* str.find(c): first index of c in s, 0 when absent (1-based)
Find(s, c) ==
    IF \E i \in 1..Len(s) : s[i] = c
    THEN CHOOSE i \in 1..Len(s) : s[i] = c /\ \A j \in 1..(i - 1) : s[j] # c
    ELSE 0

\* str.rfind(c)
RFind(s, c) ==
    IF \E i \in 1..Len(s) : s[i] = c
    THEN CHOOSE i \in 1..Len(s) : s[i] = c /\ \A j \in (i + 1)..Len(s) : s[j] # c
    ELSE 0

Drop(s, n) == SubSeq(s, n + 1, Len(s))
Take(s, n) == SubSeq(s, 1, n)

-----------------------------------------------------------------------------
(* urlparse(base_url).hostname, for URLs without IPv6 brackets *)

Letters == {"h", "t", "p", "g", "w", "G", "W", "u"}
SchemeChars == Letters \cup {"3", "8", "0", ".", "+", "-"}

\* urlsplit: the text after "scheme:" when a scheme is recognised
AfterScheme(url) ==
    LET i == Find(url, ":")
    IN  IF /\ i > 1
           /\ url[1] \in Letters
           /\ \A j \in 1..(i - 1) : url[j] \in SchemeChars
        THEN Drop(url, i)
        ELSE url

\* urlsplit: netloc is what follows a leading "//" up to the first "/", "?" or "#"
Netloc(url) ==
    LET rest == AfterScheme(url)
    IN  IF Len(rest) >= 2 /\ rest[1] = "/" /\ rest[2] = "/"
        THEN LET body == Drop(rest, 2)
                 stops == {i \in 1..Len(body) : body[i] \in {"/", "?", "#"}}
                 end == IF stops = {} THEN Len(body)
                        ELSE (CHOOSE i \in stops : \A j \in stops : i <= j) - 1
             IN  Take(body, end)
        ELSE <<>>

\* SplitResult.hostname: drop userinfo, drop the port, lower-case; None when empty
Hostname(url) ==
    LET netloc == Netloc(url)
        hostinfo == Drop(netloc, RFind(netloc, "@"))
        colon == Find(hostinfo, ":")
        host == IF colon = 0 THEN hostinfo ELSE Take(hostinfo, colon - 1)
    IN  IF host = <<>> THEN None ELSE StrV(Lower(host))

\* _controller_host_from_url
ControllerHost(base_url) == Or(Hostname(base_url), StrV(base_url))

-----------------------------------------------------------------------------
(* The inventory store (ansible.inventory.data.InventoryData), as the plugin
   uses it: groups map a name to the hosts added to it, children holds the
   <<group, child group>> pairs, hostvars map a host to its variables. *)

NoVars == [x \in {} |-> None]
EmptyInventory ==
    [groups |-> [x \in {} |-> {}], children |-> {}, hostvars |-> [x \in {} |-> NoVars]]

\* inventory.add_group(g): creating an existing group is a no-op
AddGroup(inv, g) ==
    IF g \in DOMAIN inv.groups THEN inv
    ELSE [inv EXCEPT !.groups = (g :> {}) @@ @]

\* inventory.add_child(g, host), g an existing group
AddChild(inv, g, host) ==
    [inv EXCEPT !.groups[g] = @ \cup {host}]

\* inventory.add_child(g, child), g and child existing groups
AddChildGroup(inv, g, child) ==
    [inv EXCEPT !.children = @ \cup {<<g, child>>}]

\* inventory.add_host(host, group=g): an existing host is kept, with its variables
AddHost(inv, host, g) ==
    LET withHost == IF host \in DOMAIN inv.hostvars THEN inv
                    ELSE [inv EXCEPT !.hostvars = (host :> NoVars) @@ @]
    IN  AddChild(withHost, g, host)

\* inventory.set_variable(host, k, v)
SetVariable(inv, host, k, v) ==
    [inv EXCEPT !.hostvars[host] = (k :> v) @@ @]

-----------------------------------------------------------------------------
(* _find_project_id, lines 111-130 *)

Found(id) == [ok |-> TRUE, pid |-> id, err |-> "none"]
Failed(kind) == [ok |-> FALSE, pid |-> None, err |-> kind]

\* lines 114-116: the first project whose project_id equals the selector
RECURSIVE HasProjectId(_, _, _)
HasProjectId(ps, i, project_id) ==
    IF i > Len(ps) THEN FALSE
    ELSE IF ps[i].project_id = project_id THEN TRUE
    ELSE HasProjectId(ps, i + 1, project_id)

\* line 120
NameMatches(ps, project_name) == SelectSeq(ps, LAMBDA p : p.name = project_name)

\* faulty variant: an unknown project_id falls back to project_name
FindProjectIdFallsBack(ps, project_id, project_name) ==
    IF Truthy(project_id) /\ HasProjectId(ps, 1, project_id) THEN Found(project_id)
    ELSE IF Truthy(project_name)
    THEN LET matches == NameMatches(ps, project_name)
         IN  IF matches = <<>> THEN Failed("NotFound")
             ELSE IF Len(matches) > 1 THEN Failed("AmbiguousSelector")
             ELSE Found(matches[1].project_id)
    ELSE IF Truthy(project_id) THEN Failed("NotFound")
    ELSE Failed("MissingSelector")

\* lines 113-130
FindProjectId(ps, project_id, project_name) ==
    IF Truthy(project_id)
    THEN IF HasProjectId(ps, 1, project_id) THEN Found(project_id)
         ELSE Failed("NotFound")
    ELSE IF Truthy(project_name)
    THEN LET matches == NameMatches(ps, project_name)
         IN  IF matches = <<>> THEN Failed("NotFound")
             ELSE IF Len(matches) > 1 THEN Failed("AmbiguousSelector")
             ELSE Found(matches[1].project_id)
    ELSE Failed("MissingSelector")

-----------------------------------------------------------------------------
(* The per-node body of the loop in parse(), lines 181-231 *)

Underscore == <<"_">>
Dup == <<"d", "u", "p">>
TypePrefix == <<"g", "n", "s", "3", "_", "t", "y", "p", "e", "_">>
Wildcards == {StrV(<<"0", ".", "0", ".", "0", ".", "0">>), StrV(<<":", ":">>)}

\* faulty variant: line 188 left out
CandidateNoFallback(n, host_naming) ==
    IF host_naming = "name" THEN n.name ELSE n.node_id

\* lines 187-188
Candidate(n, host_naming) ==
    LET host == IF host_naming = "name" THEN n.name ELSE n.node_id
    IN  Or(Or(host, n.name), n.node_id)

\* faulty variant: node_id[:6] for node_id[-6:]
DedupSuffixFirst6(node_id) ==
    IF Truthy(node_id)
    THEN IF Len(node_id.v) <= SuffixLen THEN node_id.v ELSE Take(node_id.v, SuffixLen)
    ELSE Dup

\* line 193
DedupSuffix(node_id) ==
    IF Truthy(node_id) THEN Last6(Or(node_id, StrV(<<>>)).v) ELSE Dup

\* lines 192-194
HostId(candidate, node_id, used) ==
    IF candidate \in used
    THEN candidate \o Underscore \o DedupSuffix(node_id)
    ELSE candidate

\* faulty variant: lines 211-212 left out
ConnHostRaw(n, controller_host) == Or(n.console_host, controller_host)

\* lines 210-212
ConnHost(n, controller_host) ==
    LET console_host == Or(n.console_host, controller_host)
    IN  IF console_host \in Wildcards THEN controller_host ELSE console_host

\* faulty variant: pid and node_id exchanged in lines 200-201
StandardVarsSwapped(inv, host, n, p) ==
    LET v1 == SetVariable(inv, host, "gns3_project_id", n.node_id)
        v2 == SetVariable(v1, host, "gns3_node_id", p)
        v3 == SetVariable(v2, host, "gns3_node_name", n.name)
        v4 == SetVariable(v3, host, "gns3_node_type", n.node_type)
        v5 == SetVariable(v4, host, "gns3_status", n.status)
        v6 == SetVariable(v5, host, "gns3_console_type", n.console_type)
        v7 == SetVariable(v6, host, "gns3_console_host", n.console_host)
    IN  SetVariable(v7, host, "gns3_console_port", n.console)

\* lines 200-207
StandardVars(inv, host, n, p) ==
    LET v1 == SetVariable(inv, host, "gns3_project_id", p)
        v2 == SetVariable(v1, host, "gns3_node_id", n.node_id)
        v3 == SetVariable(v2, host, "gns3_node_name", n.name)
        v4 == SetVariable(v3, host, "gns3_node_type", n.node_type)
        v5 == SetVariable(v4, host, "gns3_status", n.status)
        v6 == SetVariable(v5, host, "gns3_console_type", n.console_type)
        v7 == SetVariable(v6, host, "gns3_console_host", n.console_host)
    IN  SetVariable(v7, host, "gns3_console_port", n.console)

\* lines 214-220
ConnectionVars(inv, host, n, c) ==
    LET withHost == SetVariable(inv, host, "ansible_host",
                                ConnHost(n, ControllerHost(RStripSlash(c.url))))
    IN  IF IsInt(n.console)
        THEN SetVariable(withHost, host, "ansible_port",
                         IntV(n.console.v[1] + c.port_offset))
        ELSE withHost

\* faulty variant: group_by_node_type not consulted
TypeGroupAlways(inv, host, n, c) ==
    IF Truthy(n.node_type)
    THEN AddChild(AddGroup(inv, TypePrefix \o n.node_type.v), TypePrefix \o n.node_type.v, host)
    ELSE inv

\* lines 223-226
TypeGroup(inv, host, n, c) ==
    IF c.group_by_node_type /\ Truthy(n.node_type)
    THEN AddChild(AddGroup(inv, TypePrefix \o n.node_type.v), TypePrefix \o n.node_type.v, host)
    ELSE inv

\* lines 197-226 for a node that is not skipped
MapHost(inv, host, n, c, p) ==
    TypeGroup(ConnectionVars(StandardVars(AddHost(inv, host, c.group), host, n, p),
                             host, n, c),
              host, n, c)

-----------------------------------------------------------------------------
(* Lines 228-231: the constructed features, which the plugin inherits from
   ansible.plugins.inventory.Constructable and calls for each host.  The
   options are data of the inventory source:
     compose       a sequence of [name, expr];
     groups        a sequence of [name, expr];
     keyed_groups  a sequence of [key, prefix, separator, parent_group,
                   default_value], an entry's absent `prefix` being "", its
                   absent `separator` "_", its absent `parent_group` and
                   `default_value` None.
   An expression is [op |-> "var", name] for the template `name`,
   [op |-> "eq", name, lit] for `name == lit` and [op |-> "ne", name, lit]
   for `name != lit`.  Evaluating an expression over a variable the host does
   not have fails (the templar raises on an undefined variable).  Host
   variables are null, text or integers here, so a key is never a list or a
   mapping. *)

Defined(e, variables) == e.name \in DOMAIN variables

\* Constructable._compose of a "var" expression
Compose(e, variables) == variables[e.name]

\* the truth of a condition (boolean(templar.template(conditional)))
Holds(e, variables) ==
    IF e.op = "eq" THEN variables[e.name] = e.lit
    ELSE IF e.op = "ne" THEN variables[e.name] # e.lit
    ELSE Truthy(variables[e.name])

Went(inv) == [inv |-> inv, ok |-> TRUE]
Raised(inv) == [inv |-> inv, ok |-> FALSE]

\* line 229, _set_composite_vars(compose, hostvars, host, strict): every
\* expression is evaluated over the hostvars read at line 228; a failure
\* raises under strict and skips the variable otherwise
RECURSIVE SetCompositeVars(_, _, _, _, _, _)
SetCompositeVars(inv, host, compose, i, strict, variables) ==
    IF i > Len(compose) THEN Went(inv)
    ELSE IF ~Defined(compose[i].expr, variables)
    THEN IF strict THEN Raised(inv)
         ELSE SetCompositeVars(inv, host, compose, i + 1, strict, variables)
    ELSE SetCompositeVars(
             SetVariable(inv, host, compose[i].name, Compose(compose[i].expr, variables)),
             host, compose, i + 1, strict, variables)

\* line 230, _add_host_to_composed_groups(groups, hostvars, host, strict): the
\* host's current variables are read again; a host that meets the condition
\* is added to the group, which is created when needed
RECURSIVE AddHostToComposedGroups(_, _, _, _, _)
AddHostToComposedGroups(inv, host, groups, i, strict) ==
    IF i > Len(groups) THEN Went(inv)
    ELSE IF ~Defined(groups[i].expr, inv.hostvars[host])
    THEN IF strict THEN Raised(inv)
         ELSE AddHostToComposedGroups(inv, host, groups, i + 1, strict)
    ELSE IF Holds(groups[i].expr, inv.hostvars[host])
    THEN AddHostToComposedGroups(
             AddChild(AddGroup(inv, groups[i].name), groups[i].name, host),
             host, groups, i + 1, strict)
    ELSE AddHostToComposedGroups(inv, host, groups, i + 1, strict)

\* the group an entry names for a text key: prefix, separator, key; an empty
\* key stands for default_value; without a prefix the separator is dropped
\* when leading_separator is off
KeyedGroupName(entry, key, leading_separator) ==
    LET bare == IF entry.default_value # None /\ key.v = <<>>
                THEN entry.default_value.v ELSE key.v
        sep == IF entry.prefix = <<>> /\ ~leading_separator THEN <<>> ELSE entry.separator
    IN  entry.prefix \o sep \o bare

\* the host joins the entry's group, which joins parent_group when one is given
JoinKeyedGroup(inv, host, entry, gname) ==
    LET joined == AddHost(AddGroup(inv, gname), host, gname)
    IN  IF Truthy(entry.parent_group)
        THEN AddChildGroup(AddGroup(joined, entry.parent_group.v), entry.parent_group.v, gname)
        ELSE joined

\* line 231, _add_host_to_keyed_groups(keyed_groups, hostvars, host, strict):
\* a failing key raises under strict and skips the entry otherwise; a key
\* that is text (or empty text with a default_value) names a group; any
\* other non-empty key is an invalid group name and always raises; an empty
\* key raises under strict and gives no group otherwise
RECURSIVE AddHostToKeyedGroups(_, _, _, _, _, _)
AddHostToKeyedGroups(inv, host, keyed, i, strict, leading_separator) ==
    IF i > Len(keyed) THEN Went(inv)
    ELSE IF ~Defined(keyed[i].key, inv.hostvars[host])
    THEN IF strict THEN Raised(inv)
         ELSE AddHostToKeyedGroups(inv, host, keyed, i + 1, strict, leading_separator)
    ELSE LET key == Compose(keyed[i].key, inv.hostvars[host])
         IN  IF Truthy(key) \/ (key = StrV(<<>>) /\ keyed[i].default_value # None)
             THEN IF key.k # "str" THEN Raised(inv)
                  ELSE AddHostToKeyedGroups(
                           JoinKeyedGroup(inv, host, keyed[i],
                                          KeyedGroupName(keyed[i], key, leading_separator)),
                           host, keyed, i + 1, strict, leading_separator)
             ELSE IF strict THEN Raised(inv)
             ELSE AddHostToKeyedGroups(inv, host, keyed, i + 1, strict, leading_separator)

\* lines 228-231
Constructed(inv, host, c) ==
    LET composed == SetCompositeVars(inv, host, c.compose, 1, c.strict, inv.hostvars[host])
        grouped == AddHostToComposedGroups(composed.inv, host, c.groups, 1, c.strict)
    IN  IF ~composed.ok THEN composed
        ELSE IF ~grouped.ok THEN grouped
        ELSE AddHostToKeyedGroups(grouped.inv, host, c.keyed_groups, 1, c.strict,
                                  c.leading_separator)

-----------------------------------------------------------------------------
(* Inputs: what the controller may answer and what the options may be *)

IdA == <<"a", "1", "2", "3", "4", "5", "6">>
IdB == <<"b", "1", "2", "3", "4", "5", "6">>
IdC == <<"c", "7">>
NameA == <<"A">>
NameSuffixed == <<"A", "_", "1", "2", "3", "4", "5", "6">>
Telnet == StrV(<<"t">>)
Started == StrV(<<"s", "t", "a", "r", "t", "e", "d">>)
Stopped == StrV(<<"s", "t", "o", "p", "p", "e", "d">>)
Router == StrV(<<"r">>)
Switch == StrV(<<"s">>)
Addr == StrV(<<"1", "0", ".", "0", ".", "0", ".", "1">>)
AnyAddr4 == StrV(<<"0", ".", "0", ".", "0", ".", "0">>)
AnyAddr6 == StrV(<<":", ":">>)

Node(id, name, type, status, chost, console) ==
    [node_id |-> id, name |-> name, node_type |-> type, status |-> status,
     console_type |-> Telnet, console_host |-> chost, console |-> console]

NodeSet ==
    { Node(StrV(IdA), StrV(NameA), Router, Started, AnyAddr4, IntV(5000)),
      Node(StrV(IdB), StrV(NameA), Switch, Stopped, Addr, None),
      Node(StrV(IdC), StrV(NameSuffixed), StrV(<<>>), Started, AnyAddr6, IntV(5000)),
      Node(None, StrV(NameA), None, Stopped, StrV(<<>>), StrV(<<"5">>)),
      Node(StrV(NameA), StrV(<<>>), Router, Started, None, IntV(5000)),
      Node(StrV(<<>>), None, Router, Started, Addr, IntV(5000)) }

RECURSIVE SeqsUpTo(_, _)
SeqsUpTo(S, n) ==
    IF n = 0 THEN {<<>>}
    ELSE LET shorter == SeqsUpTo(S, n - 1)
         IN  shorter \cup {Append(q, x) : q \in {r \in shorter : Len(r) = n - 1}, x \in S}

NodeLists == SeqsUpTo(NodeSet, MaxNodes)

P1 == StrV(<<"p", "1">>)
P2 == StrV(<<"p", "2">>)
Lab == StrV(<<"L">>)
Core == StrV(<<"C">>)

ProjectSet ==
    { [project_id |-> P1, name |-> Lab],
      [project_id |-> P2, name |-> Lab],
      [project_id |-> P2, name |-> Core] }

ProjectLists == SeqsUpTo(ProjectSet, MaxProjects)

\* project_id / project_name options (lines 147-148)
Selectors ==
    [project_id : {None, StrV(<<>>), P1}, project_name : {None, Lab}]

\* a keyed_groups entry with the defaults of the keys it leaves out
Keyed(key, prefix) ==
    [key |-> [op |-> "var", name |-> key], prefix |-> prefix, separator |-> Underscore,
     parent_group |-> None, default_value |-> None]

\* the constructed options of EXAMPLES (lines 66-71)
Running == <<"r", "u", "n", "n", "i", "n", "g">>
Gns3Type == <<"g", "n", "s", "3", "_", "t", "y", "p", "e">>
ExampleGroups ==
    << [name |-> Running, expr |-> [op |-> "eq", name |-> "gns3_status", lit |-> Started]] >>
ExampleKeyedGroups == << Keyed("gns3_node_type", Gns3Type) >>

\* compose: {ssh_port: ansible_port}
SshPort == << [name |-> "ssh_port", expr |-> [op |-> "var", name |-> "ansible_port"]] >>

\* options that reach the type groups' names another way:
\*   groups: {gns3_type_router: gns3_status != "started"}
\*   keyed_groups: [{key: gns3_status, prefix: gns3_type, parent_group: by_status},
\*                  {key: gns3_node_type, separator: "-", default_value: untyped}]
ByStatus == <<"b", "y", "_", "s", "t", "a", "t", "u", "s">>
Untyped == <<"u", "n", "t", "y", "p", "e", "d">>
AliasGroups ==
    << [name |-> Gns3Type \o Underscore \o Router.v,
        expr |-> [op |-> "ne", name |-> "gns3_status", lit |-> Started]] >>
AliasKeyedGroups ==
    << [Keyed("gns3_status", Gns3Type) EXCEPT !.parent_group = StrV(ByStatus)],
       [Keyed("gns3_node_type", <<>>) EXCEPT !.separator = <<"-">>,
                                             !.default_value = StrV(Untyped)] >>

UrlWithScheme == <<"h", "t", "t", "p", ":", "/", "/", "G", "W", ":", "8", "0", "/">>
UrlBare == <<"g", "w", ":", "8", "0">>

\* url, port_offset, group_by_node_type and the constructed options (lines
\* 138-150, 229-231): no constructed option under both settings of
\* group_by_node_type; the options of EXAMPLES with the type groups off;
\* compose, an aliasing group and the keyed type groups under strict with the
\* type groups on; the aliasing options with the type groups off.
Profiles ==
    { [url |-> UrlWithScheme, port_offset |-> 1, group_by_node_type |-> TRUE,
       compose |-> <<>>, groups |-> <<>>, keyed_groups |-> <<>>,
       strict |-> FALSE, leading_separator |-> TRUE],
      [url |-> UrlBare, port_offset |-> -1, group_by_node_type |-> FALSE,
       compose |-> <<>>, groups |-> <<>>, keyed_groups |-> <<>>,
       strict |-> TRUE, leading_separator |-> TRUE],
      [url |-> UrlBare, port_offset |-> -1, group_by_node_type |-> FALSE,
       compose |-> SshPort, groups |-> ExampleGroups, keyed_groups |-> ExampleKeyedGroups,
       strict |-> FALSE, leading_separator |-> TRUE],
      [url |-> UrlWithScheme, port_offset |-> 1, group_by_node_type |-> TRUE,
       compose |-> SshPort, groups |-> AliasGroups, keyed_groups |-> ExampleKeyedGroups,
       strict |-> TRUE, leading_separator |-> TRUE],
      [url |-> UrlBare, port_offset |-> -1, group_by_node_type |-> FALSE,
       compose |-> <<>>, groups |-> AliasGroups, keyed_groups |-> AliasKeyedGroups,
       strict |-> FALSE, leading_separator |-> FALSE] }

Gns3 == <<"g", "n", "s", "3">>

Config(p, naming, useCache, sel) ==
    [url |-> p.url, port_offset |-> p.port_offset, group |-> Gns3,
     host_naming |-> naming, group_by_node_type |-> p.group_by_node_type,
     cache |-> useCache,
     compose |-> p.compose, groups |-> p.groups, keyed_groups |-> p.keyed_groups,
     strict |-> p.strict, leading_separator |-> p.leading_separator,
     project_id |-> sel.project_id, project_name |-> sel.project_name]

NoSelector == [project_id |-> None, project_name |-> None]

\* the option files a run may be given; those with constructed options name
\* hosts by the node's name and have caching on under strict, where an abort
\* inside the loop comes after the cache write
Configs ==
    { c \in { Config(p, naming, useCache, NoSelector) :
                p \in Profiles, naming \in {"name", "node_id"}, useCache \in BOOLEAN } :
        (c.compose # <<>> \/ c.groups # <<>> \/ c.keyed_groups # <<>>) =>
            (c.host_naming = "name" /\ c.cache = c.strict) }

-----------------------------------------------------------------------------
(* parse(), lines 132-231 *)

NoEntry == <<>>
Skip == None

Init ==
    /\ cfg \in Configs
    /\ cache = NoEntry
    /\ pc = "idle"
    /\ projects = <<>>
    /\ pid = None
    /\ nodes = <<>>
    /\ inventory = EmptyInventory
    /\ seen = {}
    /\ emitted = <<>>
    /\ calls = <<>>
    /\ error = "none"
    /\ fromCache = FALSE
    /\ cacheAtStart = NoEntry
    /\ stored = {}

\* faulty variant: the cache is never read
UseCachedNever(c, entry) == FALSE

\* lines 154-160: `source` comes from the cache when caching is on and the
\* entry exists (a stored payload is a non-empty dict, hence truthy)
UseCached(c, entry) == c.cache /\ entry # NoEntry

\* faulty variant: the resolver's error is swallowed
AfterResolveContinues(r) == "fetch_nodes"

\* line 163: an error raised by _find_project_id is not caught
AfterResolve(r) == IF r.ok THEN "fetch_nodes" ELSE "failed"

\* lines 133-160: a run starts on a fresh inventory; the selector options are
\* read from the inventory source, which may have been edited since the last
\* run; the cache is consulted once.
Start ==
    /\ pc = "idle"
    /\ \E sel \in Selectors :
         cfg' = [cfg EXCEPT !.project_id = sel.project_id,
                            !.project_name = sel.project_name]
    /\ inventory' = EmptyInventory
    /\ seen' = {}
    /\ emitted' = <<>>
    /\ calls' = <<>>
    /\ error' = "none"
    /\ projects' = <<>>
    /\ cacheAtStart' = cache
    /\ IF UseCached(cfg, cache)
       THEN /\ fromCache' = TRUE
            /\ pid' = cache[1].project_id
            /\ nodes' = cache[1].nodes
            /\ pc' = "emit"
       ELSE /\ fromCache' = FALSE
            /\ pid' = None
            /\ nodes' = <<>>
            /\ pc' = "fetch_projects"
    /\ UNCHANGED <<cache, stored>>

\* line 161, the GET succeeds
FetchProjects ==
    /\ pc = "fetch_projects"
    /\ \E ps \in ProjectLists : projects' = ps
    /\ calls' = Append(calls, "projects")
    /\ pc' = "resolve"
    /\ UNCHANGED <<cfg, cache, pid, nodes, inventory, seen, emitted, error,
                   fromCache, cacheAtStart, stored>>

\* line 161, _http_get_json raises (lines 108-109)
FetchProjectsFails ==
    /\ pc = "fetch_projects"
    /\ calls' = Append(calls, "projects")
    /\ error' = "TransportError"
    /\ pc' = "failed"
    /\ UNCHANGED <<cfg, cache, projects, pid, nodes, inventory, seen, emitted,
                   fromCache, cacheAtStart, stored>>

\* line 163
Resolve ==
    /\ pc = "resolve"
    /\ LET r == FindProjectId(projects, cfg.project_id, cfg.project_name)
       IN  /\ pid' = r.pid
           /\ error' = r.err
           /\ pc' = AfterResolve(r)
    /\ UNCHANGED <<cfg, cache, projects, nodes, inventory, seen, emitted, calls,
                   fromCache, cacheAtStart, stored>>

\* lines 167-170
StoreSource(c, entry, source) == IF c.cache THEN <<source>> ELSE entry

\* lines 165-170, the GET succeeds
FetchNodes ==
    /\ pc = "fetch_nodes"
    /\ \E ns \in NodeLists :
         /\ nodes' = ns
         /\ cache' = StoreSource(cfg, cache, [project_id |-> pid, nodes |-> ns])
    /\ calls' = Append(calls, "nodes")
    /\ projects' = <<>>
    /\ pc' = "emit"
    /\ UNCHANGED <<cfg, pid, inventory, seen, emitted, error, fromCache,
                   cacheAtStart, stored>>

\* line 165, _http_get_json raises
FetchNodesFails ==
    /\ pc = "fetch_nodes"
    /\ calls' = Append(calls, "nodes")
    /\ error' = "TransportError"
    /\ projects' = <<>>
    /\ pc' = "failed"
    /\ UNCHANGED <<cfg, cache, pid, nodes, inventory, seen, emitted, fromCache,
                   cacheAtStart, stored>>

\* lines 172-179
EnsureParentGroup ==
    /\ pc = "emit"
    /\ inventory' = AddGroup(inventory, cfg.group)
    /\ seen' = {}
    /\ pc' = "loop"
    /\ UNCHANGED <<cfg, cache, projects, pid, nodes, emitted, calls, error,
                   fromCache, cacheAtStart, stored>>

\* one iteration of the loop, lines 181-231; an error raised by a constructed
\* feature under strict ends the run, with the host already in the inventory
ProcessNode ==
    /\ pc = "loop"
    /\ Len(emitted) < Len(nodes)
    /\ LET n == nodes[Len(emitted) + 1]
           candidate == Candidate(n, cfg.host_naming)
       IN  IF ~Truthy(candidate)
           THEN /\ emitted' = Append(emitted, Skip)
                /\ UNCHANGED <<inventory, seen, pc, error>>
           ELSE LET host == HostId(candidate.v, n.node_id, seen)
                    r == Constructed(MapHost(inventory, host, n, cfg, pid), host, cfg)
                IN  /\ seen' = seen \cup {host}
                    /\ inventory' = r.inv
                    /\ emitted' = Append(emitted, StrV(host))
                    /\ pc' = IF r.ok THEN "loop" ELSE "failed"
                    /\ error' = IF r.ok THEN "none" ELSE "CompositionError"
    /\ UNCHANGED <<cfg, cache, projects, pid, nodes, calls, fromCache,
                   cacheAtStart, stored>>

HostGroupSet(inv) ==
    [hosts |-> DOMAIN inv.hostvars, groups |-> inv.groups, children |-> inv.children]

\* the loop is exhausted and parse() returns
Finish ==
    /\ pc = "loop"
    /\ Len(emitted) = Len(nodes)
    /\ pc' = "done"
    /\ stored' = IF cfg.cache /\ ~fromCache THEN {HostGroupSet(inventory)} ELSE stored
    /\ UNCHANGED <<cfg, cache, projects, pid, nodes, inventory, seen, emitted,
                   calls, error, fromCache, cacheAtStart>>

\* the process ends: its inventory and locals are gone, the cache backend
\* outlives it
Exit ==
    /\ pc \in {"done", "failed"}
    /\ pc' = "idle"
    /\ projects' = <<>>
    /\ pid' = None
    /\ nodes' = <<>>
    /\ inventory' = EmptyInventory
    /\ seen' = {}
    /\ emitted' = <<>>
    /\ calls' = <<>>
    /\ error' = "none"
    /\ fromCache' = FALSE
    /\ cacheAtStart' = NoEntry
    /\ UNCHANGED <<cfg, cache, stored>>

\* the cache backend drops the entry (timeout, flush)
CacheExpires ==
    /\ pc = "idle"
    /\ cache # NoEntry
    /\ cache' = NoEntry
    /\ stored' = {}
    /\ UNCHANGED <<cfg, pc, projects, pid, nodes, inventory, seen, emitted,
                   calls, error, fromCache, cacheAtStart>>

Next ==
    \/ Start
    \/ FetchProjects
    \/ FetchProjectsFails
    \/ Resolve
    \/ FetchNodes
    \/ FetchNodesFails
    \/ EnsureParentGroup
    \/ ProcessNode
    \/ Finish
    \/ Exit
    \/ CacheExpires

Spec == Init /\ [][Next]_vars

-----------------------------------------------------------------------------
(* Vocabulary of the properties *)

Hosts == DOMAIN inventory.hostvars
Groups == DOMAIN inventory.groups
Processed == 1..Len(emitted)
Mapped == {i \in Processed : emitted[i] # Skip}
Looping == pc \in {"loop", "done"}

\* the node has a non-empty name or node_id
HasIdentifier(n) == Truthy(n.name) \/ Truthy(n.node_id)

\* the identifier field the naming policy names, and the other one
PolicyField(n) == IF cfg.host_naming = "name" THEN n.name ELSE n.node_id
OtherField(n) == IF cfg.host_naming = "name" THEN n.node_id ELSE n.name

\* the candidate identifier of a node that has one
CandidateOf(n) == IF Truthy(PolicyField(n)) THEN PolicyField(n).v ELSE OtherField(n).v

\* the last (at most) 6 characters of a text, one position at a time
Tail6(t) ==
    LET k == IF Len(t) < 6 THEN Len(t) ELSE 6
    IN  [j \in 1..k |-> t[Len(t) - k + j]]

\* candidate, underscore, last 6 characters of node_id or `dup`
Suffixed(x, n) ==
    x \o <<"_">> \o (IF Truthy(n.node_id) THEN Tail6(n.node_id.v) ELSE <<"d", "u", "p">>)

\* the nodes processed before i that were given host h
EarlierAs(i, h) == {j \in Mapped : j < i /\ emitted[j].v = h}

\* the nodes processed before i whose candidate identifier is x
EarlierCandidate(i, x) ==
    {j \in Processed : j < i /\ HasIdentifier(nodes[j]) /\ CandidateOf(nodes[j]) = x}

-----------------------------------------------------------------------------
(* C1: after parse() completes, no two nodes that have a name or a node_id
   end with the same host identifier, and the inventory holds as many hosts
   as there are such nodes. *)
C1_HostIdentifiersUnique ==
    pc = "done" =>
        LET kept == {i \in 1..Len(nodes) : HasIdentifier(nodes[i])}
        IN  /\ \A i \in kept : \A j \in kept : i # j => emitted[i] # emitted[j]
            /\ Cardinality(Hosts) = Cardinality(kept)

-----------------------------------------------------------------------------
(* C2: _find_project_id agrees with the resolver of the spec.  With a
   project_id given it succeeds, returning that id, exactly when some project
   has that id, and fails with NotFound otherwise, whatever project_name is;
   with only a project_name given, no match is NotFound, one match returns
   that project's id, several are AmbiguousSelector; with neither it fails
   with MissingSelector. *)
ResolverErrors == {"NotFound", "AmbiguousSelector", "MissingSelector"}
Resolved ==
    \/ pc = "fetch_nodes"
    \/ pc = "failed" /\ error \in ResolverErrors

WithId == {i \in 1..Len(projects) : projects[i].project_id = cfg.project_id}
WithName == {i \in 1..Len(projects) : projects[i].name = cfg.project_name}
Succeeded(id) == pc = "fetch_nodes" /\ error = "none" /\ pid = id
FailedWith(kind) == pc = "failed" /\ error = kind

C2_ResolverMatchesSpec ==
    Resolved =>
        /\ Truthy(cfg.project_id) =>
              IF WithId # {} THEN Succeeded(cfg.project_id) ELSE FailedWith("NotFound")
        /\ ~Truthy(cfg.project_id) /\ Truthy(cfg.project_name) =>
              /\ Cardinality(WithName) = 0 => FailedWith("NotFound")
              /\ Cardinality(WithName) = 1 =>
                    \E i \in WithName : Succeeded(projects[i].project_id)
              /\ Cardinality(WithName) >= 2 => FailedWith("AmbiguousSelector")
        /\ ~Truthy(cfg.project_id) /\ ~Truthy(cfg.project_name) =>
              FailedWith("MissingSelector")

\* an id that no project has, while the name given beside it matches exactly
\* one project: the resolver has failed with NotFound
C2_Witness ==
    /\ Resolved
    /\ Truthy(cfg.project_id)
    /\ WithId = {}
    /\ Cardinality(WithName) = 1
    /\ FailedWith("NotFound")

-----------------------------------------------------------------------------
(* C3: in the inventory of a completed parse(), every host has ansible_host,
   and has ansible_port exactly when its gns3_console_port is an integer, in
   which case ansible_port is that integer plus port_offset. *)
C3_PortOnlyForIntegerConsole ==
    pc = "done" =>
        \A h \in Hosts :
            LET hv == inventory.hostvars[h]
            IN  /\ "ansible_host" \in DOMAIN hv
                /\ ("ansible_port" \in DOMAIN hv) <=> IsInt(hv["gns3_console_port"])
                /\ "ansible_port" \in DOMAIN hv =>
                      hv["ansible_port"] =
                          IntV(hv["gns3_console_port"].v[1] + cfg.port_offset)

-----------------------------------------------------------------------------
(* C4: the ansible_host a node gives its host is the controller hostname
   parsed from the base URL when the node's console_host is 0.0.0.0 or ::
   or is absent (null or empty), and the node's console_host itself
   otherwise.  A host shows the value of the last node written to it. *)

\* what _controller_host_from_url gives for the two base URLs of the model:
\* "http://GW:80/" has the hostname "gw"; "gw:80" has none and is used whole
ExpectedControllerHost ==
    IF cfg.url[1] = "h" THEN StrV(<<"g", "w">>) ELSE StrV(<<"g", "w", ":", "8", "0">>)

ExpectedAnsibleHost(n) ==
    IF \/ n.console_host.k = "none"
       \/ n.console_host.v = <<>>
       \/ n.console_host.v = <<"0", ".", "0", ".", "0", ".", "0">>
       \/ n.console_host.v = <<":", ":">>
    THEN ExpectedControllerHost
    ELSE n.console_host

LastWriter(i) == \A j \in Mapped : j > i => emitted[j] # emitted[i]

C4_AnsibleHost ==
    Looping =>
        \A i \in Mapped :
            LastWriter(i) =>
                inventory.hostvars[emitted[i].v]["ansible_host"] =
                    ExpectedAnsibleHost(nodes[i])

\* a completed run over nodes with a wildcard console_host, an absent one and
\* an ordinary address
C4_Witness ==
    /\ pc = "done"
    /\ \E i \in Mapped :
         /\ LastWriter(i)
         /\ nodes[i].console_host.v \in {<<"0", ".", "0", ".", "0", ".", "0">>, <<":", ":">>}
         /\ inventory.hostvars[emitted[i].v]["ansible_host"] = StrV(<<"g", "w">>)
    /\ \E i \in Mapped : LastWriter(i) /\ nodes[i].console_host = None
    /\ \E i \in Mapped :
         /\ LastWriter(i)
         /\ inventory.hostvars[emitted[i].v]["ansible_host"] = nodes[i].console_host

-----------------------------------------------------------------------------
(* C5: a run with caching enabled that finds a cache entry issues no remote
   call at all; when the entry was stored by a run that completed, the run
   does not fail and ends with the host/group set of that run.  (A run that
   finds the entry of a run aborted by a constructed feature is aborted the
   same way.) *)
C5_CachedRunRepeats ==
    /\ (pc # "idle" /\ cfg.cache /\ cacheAtStart # NoEntry) =>
          /\ fromCache
          /\ calls = <<>>
          /\ pc \in {"emit", "loop", "done", "failed"}
          /\ pc = "failed" => (error = "CompositionError" /\ stored = {})
    /\ (pc = "done" /\ cfg.cache /\ cacheAtStart # NoEntry) =>
          stored = {HostGroupSet(inventory)}

\* a completed run served from the cache, with hosts in it
C5_Witness ==
    /\ pc = "done"
    /\ cfg.cache
    /\ cacheAtStart # NoEntry
    /\ fromCache
    /\ calls = <<>>
    /\ Hosts # {}
    /\ stored = {HostGroupSet(inventory)}

-----------------------------------------------------------------------------
(* C6: once the project-list fetch, the project resolution or the node-list
   fetch has failed, the run is over: nothing was added to the inventory (no
   group, no host), the cache entry is the one the run found, and no remote
   call was issued twice.  Every failed run has an error, and the only other
   error is the one a constructed feature raises inside the loop. *)
FetchErrors == {"TransportError"} \cup ResolverErrors

C6_FailureEmitsNothing ==
    /\ error \in FetchErrors =>
          /\ pc = "failed"
          /\ inventory = EmptyInventory
          /\ cache = cacheAtStart
          /\ calls \in {<<"projects">>, <<"projects", "nodes">>}
    /\ pc = "failed" => error \in FetchErrors \cup {"CompositionError"}
    /\ error = "CompositionError" => (pc = "failed" /\ Hosts # {})

\* each of the three failures, with caching enabled
C6_Witness ==
    /\ pc = "failed"
    /\ cfg.cache
    /\ error \in FetchErrors
    /\ inventory = EmptyInventory
    /\ cache = NoEntry

-----------------------------------------------------------------------------
(* C7, as claimed: the first node whose candidate identifier is X is emitted
   as host X exactly, and a later node with the same candidate X is emitted
   as X, an underscore and the last 6 characters of its node_id (`dup` when
   its node_id is absent or empty). *)
C7_FirstOccurrenceUnsuffixed ==
    Looping =>
        \A i \in Mapped :
            LET x == CandidateOf(nodes[i])
            IN  IF EarlierCandidate(i, x) = {}
                THEN emitted[i].v = x
                ELSE emitted[i].v = Suffixed(x, nodes[i])

(* C7, amended: the first node whose candidate identifier is X is emitted as
   host X exactly unless X is already the final identifier of an earlier
   node, in which case it is suffixed like a later occurrence; a later node
   with the same candidate X is emitted as X, an underscore and the last 6
   characters of its node_id (`dup` when its node_id is absent or empty). *)
C7_FirstSeenWins ==
    Looping =>
        \A i \in Mapped :
            LET x == CandidateOf(nodes[i])
            IN  /\ (EarlierCandidate(i, x) = {} /\ EarlierAs(i, x) = {}) =>
                      emitted[i].v = x
                /\ (EarlierCandidate(i, x) # {} \/ EarlierAs(i, x) # {}) =>
                      emitted[i].v = Suffixed(x, nodes[i])

\* one name used by two nodes: the first keeps it, the second carries the
\* last 6 of its 7-character node_id; the third node is the first of its name,
\* which is the second node's host, and is suffixed too
C7_Witness ==
    /\ pc = "done"
    /\ Len(emitted) = 3
    /\ Mapped = {1, 2, 3}
    /\ CandidateOf(nodes[1]) = CandidateOf(nodes[2])
    /\ emitted[1].v = CandidateOf(nodes[1])
    /\ Len(nodes[2].node_id.v) > 6
    /\ emitted[2].v = CandidateOf(nodes[1]) \o <<"_", "1", "2", "3", "4", "5", "6">>
    /\ CandidateOf(nodes[3]) = emitted[2].v
    /\ emitted[3].v = Suffixed(emitted[2].v, nodes[3])

-----------------------------------------------------------------------------
(* C8: under either naming policy a node whose policy field is empty takes
   its candidate identifier from the other identifier field; a node with
   both fields empty gives no host and no error, leaves the used-identifier
   set, the hosts and the groups as they were, and the nodes after it are
   still processed. *)
StartsWith(t, prefix) == Len(t) >= Len(prefix) /\ Take(t, Len(prefix)) = prefix
MappedHosts == {emitted[i].v : i \in Mapped}

C8_FallbackAndSkip ==
    /\ Looping =>
          /\ \A i \in Processed :
                LET n == nodes[i]
                IN  /\ (~Truthy(PolicyField(n)) /\ ~Truthy(OtherField(n))) =>
                          emitted[i] = Skip
                    /\ (~Truthy(PolicyField(n)) /\ Truthy(OtherField(n))) =>
                          /\ emitted[i] # Skip
                          /\ StartsWith(emitted[i].v, OtherField(n).v)
                    /\ Truthy(PolicyField(n)) =>
                          /\ emitted[i] # Skip
                          /\ StartsWith(emitted[i].v, PolicyField(n).v)
          /\ seen = MappedHosts
          /\ Hosts = MappedHosts
          /\ \A g \in Groups : inventory.groups[g] \subseteq MappedHosts
          /\ error = "none"
    /\ pc = "done" => Len(emitted) = Len(nodes)

\* a completed run in which a node was skipped, a node after it was mapped
\* and a node took its identifier from the other field
C8_Witness ==
    /\ pc = "done"
    /\ \E i \in Processed : \E j \in Mapped :
         /\ emitted[i] = Skip
         /\ i < j
    /\ \E k \in Mapped :
         /\ ~Truthy(PolicyField(nodes[k]))
         /\ emitted[k].v = OtherField(nodes[k]).v

-----------------------------------------------------------------------------
(* C9, as claimed: after a completed run the parent group exists, also with
   no host; every host is in it, so it contains every other group's members;
   a host is in group gns3_type_<T> exactly when group_by_node_type is
   enabled and a node mapped to that host has the non-empty type T; with the
   flag disabled there is no type group. *)
NodeTypes == {nodes[i].node_type : i \in Mapped} \ {None, StrV(<<>>)}
AnyTypes == NodeTypes \cup {Router, Switch}
TypeGroupName(t) == <<"g", "n", "s", "3", "_", "t", "y", "p", "e", "_">> \o t.v
IsTypeGroup(g) == StartsWith(g, TypeGroupName(StrV(<<>>)))
Members(g) == IF g \in Groups THEN inventory.groups[g] ELSE {}
HasType(h, t) == \E i \in Mapped : emitted[i].v = h /\ nodes[i].node_type = t

RECURSIVE Below(_, _)
Below(gs, n) ==
    IF n = 0 THEN gs
    ELSE Below(gs \cup {p[2] : p \in {q \in inventory.children : q[1] \in gs}}, n - 1)
AllMembers(g) == UNION {inventory.groups[x] : x \in Below({g}, Cardinality(Groups))}
NoConstructedGroups == cfg.groups = <<>> /\ cfg.keyed_groups = <<>>

-----------------------------------------------------------------------------
(* C10, as claimed: in every completed run the gns3_project_id of each host
   is the id its own selector selects: project_id when that is given. *)
C10_ProjectIdOfOwnSelector ==
    (pc = "done" /\ Truthy(cfg.project_id)) =>
        \A h \in Hosts : inventory.hostvars[h]["gns3_project_id"] = cfg.project_id

(* C10, amended: in every completed run that fetched from the controller the
   gns3_project_id of each host is the id the run's own selector selects
   (project_id when given, otherwise the id of the one project named
   project_name); in a run served from the cache it is the project id stored
   in the cache entry, whatever the run's selector is. *)
IdsNamed(name) == {p.project_id : p \in {q \in ProjectSet : q.name = name}}

C10_ProjectIdOfSource ==
    /\ (pc = "fetch_nodes" /\ ~Truthy(cfg.project_id)) =>
          /\ Cardinality(WithName) = 1
          /\ \A i \in WithName : pid = projects[i].project_id
    /\ (pc \in {"fetch_nodes", "emit", "loop", "done"} /\ ~fromCache) =>
          IF Truthy(cfg.project_id) THEN pid = cfg.project_id
          ELSE pid \in IdsNamed(cfg.project_name)
    /\ (pc \in {"emit", "loop", "done"} /\ fromCache) =>
          pid = cacheAtStart[1].project_id
    /\ Looping =>
          \A h \in Hosts : inventory.hostvars[h]["gns3_project_id"] = pid

\* a completed run served from the cache whose selector names another
\* project than the entry's, and a completed run that resolved by name
C10_Witness ==
    /\ pc = "done"
    /\ Hosts # {}
    /\ fromCache
    /\ Truthy(cfg.project_id)
    /\ cfg.project_id # pid
    /\ \A h \in Hosts : inventory.hostvars[h]["gns3_project_id"] = cacheAtStart[1].project_id

====
